---- MODULE Spec2Model ----
(***************************************************************************)
(* Model of the API practice server: server.js (auth guards, login routes) *)
(* and routes/students.js (student CRUD over an in-memory list mirrored to *)
(* data/students.json).                                                    *)
(*                                                                         *)
(* JavaScript values are tagged records [t |-> typeof, v |-> value];       *)
(* strings are sequences of one-character strings so that toLowerCase,     *)
(* Number() and split() are computed and not assumed.                      *)
(***************************************************************************)
EXTENDS Integers, Sequences, FiniteSets, TLC

VARIABLES students, file, now, tokens, jar, req, resp, handler, disk, running

vars ==
  <<students, file, now, tokens, jar, req, resp, handler, disk, running>>

(* ------------------------------ bounds --------------------------------- *)
\* create is not offered once the next id would exceed MaxId
MaxId == 3
\* the clock stops advancing at MaxTime (seconds)
MaxTime == 7200
\* number of bearer tokens clients may hold at once
MaxTokens == 2

(* --------------------------- JavaScript values ------------------------- *)
Undefined == [t |-> "undefined"]
Str(s) == [t |-> "string", v |-> s]
Num(n) == [t |-> "number", v |-> n]
Bool(b) == [t |-> "boolean", v |-> b]

typeof(x) == x.t

\* ToBoolean: undefined, "", 0 and false are falsy
Truthy(x) ==
  CASE x.t = "undefined" -> FALSE
    [] x.t = "string" -> Len(x.v) > 0
    [] x.t = "number" -> x.v # 0
    [] x.t = "boolean" -> x.v
    [] OTHER -> TRUE

LowerChar(c) ==
  CASE c = "A" -> "a"
    [] c = "B" -> "b"
    [] OTHER -> c

\* String.prototype.toLowerCase on a character sequence
toLowerCase(s) == [i \in DOMAIN s |-> LowerChar(s[i])]

Digits == {"0", "1", "2", "3", "4", "5", "6", "7", "8", "9"}

DigitVal(c) ==
  CASE c = "0" -> 0 [] c = "1" -> 1 [] c = "2" -> 2 [] c = "3" -> 3
    [] c = "4" -> 4 [] c = "5" -> 5 [] c = "6" -> 6 [] c = "7" -> 7
    [] c = "8" -> 8 [] c = "9" -> 9

RECURSIVE DecimalValue(_)
DecimalValue(s) ==
  IF Len(s) = 0 THEN 0
  ELSE 10 * DecimalValue(SubSeq(s, 1, Len(s) - 1)) + DigitVal(s[Len(s)])

\* NaN is the number that no id equals
NaN == [t |-> "number", nan |-> TRUE]

\* Number(req.params.id) for a path segment of decimal digits and letters:
\* the decimal value when every character is a digit (0 for ""), NaN otherwise
Number(s) ==
  IF \A i \in DOMAIN s : s[i] \in Digits
  THEN Num(DecimalValue(s))
  ELSE NaN

isNaN(x) == "nan" \in DOMAIN x

(* ------------------------------ server.js ------------------------------ *)
JWT_SECRET == "super-secret-key-change-me"

DEMO_USER == [username |-> <<"testuser">>, password |-> <<"password123">>,
              role |-> "student-admin"]

\* expiresIn: "1h", in seconds
ExpiresIn == 3600

\* A header value is a sequence of atoms: the space character, a word
\* without spaces, or a signed token (which contains no space either).
SP == [k |-> "sp"]
Word(w) == [k |-> "word", w |-> w]

\* jwtSign leaving the token unsigned
jwtSign_Unsigned(payload, secret, expiresIn, clock) ==
  [k |-> "jwt", username |-> payload.username, role |-> payload.role,
   iat |-> clock, exp |-> clock + expiresIn, sig |-> "none"]

\* jwtSign taking expiresIn to be a number of minutes
jwtSign_LongLived(payload, secret, expiresIn, clock) ==
  [k |-> "jwt", username |-> payload.username, role |-> payload.role,
   iat |-> clock, exp |-> clock + 60 * expiresIn, sig |-> secret]

\* jwt.sign(payload, secret, {expiresIn}): the payload plus iat and exp,
\* bound to the key that signed it
jwtSign(payload, secret, expiresIn, clock) ==
  [k |-> "jwt", username |-> payload.username, role |-> payload.role,
   iat |-> clock, exp |-> clock + expiresIn, sig |-> secret]

\* jwtVerifyError with the expiry check left out (ignoreExpiration)
jwtVerifyError_IgnoreExpiry(token, secret, clock) ==
  IF Len(token) = 0 THEN "jwt must be provided"
  ELSE IF Len(token) # 1 \/ token[1].k # "jwt" THEN "jwt malformed"
  ELSE IF token[1].sig # secret THEN "invalid signature"
  ELSE ""

\* jwt.verify(token, secret): the error message, or "" when the token is
\* a token signed with that secret whose exp is still in the future
jwtVerifyError(token, secret, clock) ==
  IF Len(token) = 0 THEN "jwt must be provided"
  ELSE IF Len(token) # 1 \/ token[1].k # "jwt" THEN "jwt malformed"
  ELSE IF token[1].sig # secret THEN "invalid signature"
  ELSE IF clock >= token[1].exp THEN "jwt expired"
  ELSE ""

jwtDecoded(token) ==
  [username |-> token[1].username, role |-> token[1].role,
   iat |-> token[1].iat, exp |-> token[1].exp]

\* String.prototype.split(" "): the pieces between single spaces
RECURSIVE split(_)
split(s) ==
  IF \A i \in DOMAIN s : s[i] # SP THEN <<s>>
  ELSE LET i == CHOOSE j \in DOMAIN s :
                  s[j] = SP /\ \A m \in 1..(j - 1) : s[m] # SP
       IN <<SubSeq(s, 1, i - 1)>> \o split(SubSeq(s, i + 1, Len(s)))

\* requireJwt checking only that the header has two parts, not the scheme
requireJwt_AnyScheme(r, clock) ==
  LET authHeader == r.authorization IN
  IF ~Truthy(authHeader)
  THEN [next |-> FALSE,
        res |-> [status |-> 401, error |-> "Missing Authorization header"]]
  ELSE LET parts == split(authHeader.v) IN
       IF Len(parts) # 2
       THEN [next |-> FALSE,
             res |-> [status |-> 401,
                      error |-> "Invalid Authorization header format"]]
       ELSE LET err == jwtVerifyError(parts[2], JWT_SECRET, clock) IN
            IF err # ""
            THEN [next |-> FALSE,
                  res |-> [status |-> 401,
                           error |-> "Invalid or expired token",
                           details |-> err]]
            ELSE [next |-> TRUE, user |-> jwtDecoded(parts[2])]

\* requireJwt: [next |-> TRUE, user |-> decoded] when next() is called,
\* otherwise the 401 response it sends
requireJwt(r, clock) ==
  LET authHeader == r.authorization IN
  IF ~Truthy(authHeader)
  THEN [next |-> FALSE,
        res |-> [status |-> 401, error |-> "Missing Authorization header"]]
  ELSE LET parts == split(authHeader.v) IN
       IF Len(parts) # 2 \/ parts[1] # <<Word("Bearer")>>
       THEN [next |-> FALSE,
             res |-> [status |-> 401,
                      error |-> "Invalid Authorization header format"]]
       ELSE LET err == jwtVerifyError(parts[2], JWT_SECRET, clock) IN
            IF err # ""
            THEN [next |-> FALSE,
                  res |-> [status |-> 401,
                           error |-> "Invalid or expired token",
                           details |-> err]]
            ELSE [next |-> TRUE, user |-> jwtDecoded(parts[2])]

\* the two error texts of requireCookieLogin
MissingCookie ==
  "Missing sessionId cookie. Please login via /auth/login-cookie."
InvalidSession == "Invalid session cookie. Please login again."

\* requireCookieLogin accepting whatever non-empty cookie is sent
requireCookieLogin_AnyCookie(r) ==
  LET sessionId == r.sessionId IN
  IF ~Truthy(sessionId)
  THEN [next |-> FALSE,
        res |-> [status |-> 401, error |-> MissingCookie]]
  ELSE [next |-> TRUE,
        user |-> [username |-> "cookieUser", role |-> "cookie-tester"]]

\* requireCookieLogin accepting the cookie only while a session is open,
\* that is between a cookie login and the next logout
requireCookieLogin_NeedsLogin(r) ==
  LET sessionId == r.sessionId IN
  IF ~Truthy(sessionId)
  THEN [next |-> FALSE,
        res |-> [status |-> 401, error |-> MissingCookie]]
  ELSE IF sessionId # Str(<<"dummy-session-id">>) \/ jar = Undefined
  THEN [next |-> FALSE,
        res |-> [status |-> 401, error |-> InvalidSession]]
  ELSE [next |-> TRUE,
        user |-> [username |-> "cookieUser", role |-> "cookie-tester"]]

\* requireCookieLogin
requireCookieLogin(r) ==
  LET sessionId == r.sessionId IN
  IF ~Truthy(sessionId)
  THEN [next |-> FALSE,
        res |-> [status |-> 401, error |-> MissingCookie]]
  ELSE IF sessionId # Str(<<"dummy-session-id">>)
  THEN [next |-> FALSE,
        res |-> [status |-> 401, error |-> InvalidSession]]
  ELSE [next |-> TRUE,
        user |-> [username |-> "cookieUser", role |-> "cookie-tester"]]

(* -------------------------- routes/students.js ------------------------- *)
\* JSON.stringify of one student: a key is written only when its value is
\* not undefined
jsonOf(st) ==
  [f \in {g \in DOMAIN st : g = "id" \/ st[g].t # "undefined"} |-> st[f]]

\* the text saveStudents writes: JSON.stringify(students, null, 2)
stringify(list) == [i \in DOMAIN list |-> jsonOf(list[i])]

\* Array.prototype.find / findIndex return the first match; 0 stands for
\* "no element" (-1, undefined)
first(S) == IF S = {} THEN 0 ELSE CHOOSE i \in S : \A j \in S : i <= j

\* indexOfId taking the id for the position in the list
indexOfId_Position(list, id) ==
  first({i \in DOMAIN list : ~isNaN(id) /\ i = id.v})

\* students.findIndex((s) => s.id === id)
indexOfId(list, id) ==
  first({i \in DOMAIN list : ~isNaN(id) /\ list[i].id = id.v})

\* indexOfEmail comparing the emails as written (no toLowerCase)
indexOfEmail_CaseSensitive(list, email) ==
  first({i \in DOMAIN list : list[i].email.v = email.v})

\* students.find((s) => s.email.toLowerCase() === email.toLowerCase())
indexOfEmail(list, email) ==
  first({i \in DOMAIN list :
           toLowerCase(list[i].email.v) = toLowerCase(email.v)})

\* indexOfOtherEmail without the test on the id: a student's own email counts
indexOfOtherEmail_AnyId(list, email, id) ==
  first({i \in DOMAIN list :
           toLowerCase(list[i].email.v) = toLowerCase(email.v)})

\* indexOfOtherEmail comparing the emails as written (no toLowerCase)
indexOfOtherEmail_CaseSensitive(list, email, id) ==
  first({i \in DOMAIN list :
           list[i].email.v = email.v /\ list[i].id # id.v})

\* students.find((s) => s.email.toLowerCase() === email.toLowerCase()
\*                       && s.id !== id)
indexOfOtherEmail(list, email, id) ==
  first({i \in DOMAIN list :
           /\ toLowerCase(list[i].email.v) = toLowerCase(email.v)
           /\ list[i].id # id.v})

\* maxIdOf with the reduction started at 1 where the code starts it at 0
maxIdOf_Seed1(list) ==
  LET ids == {list[i].id : i \in DOMAIN list} \cup {1}
  IN CHOOSE m \in ids : \A x \in ids : x <= m

\* maxIdOf taken to be the number of students
maxIdOf_Count(list) == Len(list)

\* maxIdOf with the comparison the wrong way round: the accumulator stays 0
maxIdOf_Flipped(list) == 0

\* students.reduce((max, s) => (s.id > max ? s.id : max), 0)
RECURSIVE maxIdOf(_)
maxIdOf(list) ==
  IF Len(list) = 0 THEN 0
  ELSE LET m == maxIdOf(SubSeq(list, 1, Len(list) - 1)) IN
       IF list[Len(list)].id > m THEN list[Len(list)].id ELSE m

\* a property of a parsed JSON object; a missing key reads as undefined
get(obj, key) == IF key \in DOMAIN obj THEN obj[key] ELSE Undefined

\* fieldsOf giving isActive the default false when the body has none
fieldsOf_DefaultInactive(r) ==
  LET o == IF r.body = Undefined THEN <<>> ELSE r.body IN
  [name |-> get(o, "name"), age |-> get(o, "age"),
   email |-> get(o, "email"),
   isActive |-> IF "isActive" \in DOMAIN o THEN o.isActive ELSE Bool(FALSE)]

\* req.body || {}, destructured into { name, age, email, isActive }
fieldsOf(r) ==
  LET o == IF r.body = Undefined THEN <<>> ELSE r.body IN
  [name |-> get(o, "name"), age |-> get(o, "age"),
   email |-> get(o, "email"), isActive |-> get(o, "isActive")]

\* validate returning at the first field that fails
validate_FailFast(body) ==
  IF ~Truthy(body.name) \/ typeof(body.name) # "string"
  THEN <<"name is required and must be a string">>
  ELSE IF body.age = Undefined \/ typeof(body.age) # "number"
          \/ body.age.v <= 0
  THEN <<"age is required and must be a positive number">>
  ELSE IF ~Truthy(body.email) \/ typeof(body.email) # "string"
  THEN <<"email is required and must be a string">>
  ELSE IF typeof(body.isActive) # "boolean"
  THEN <<"isActive is required and must be a boolean">>
  ELSE <<>>

\* validate testing age < 0 where the code tests age <= 0
validate_AllowsZero(body) ==
  (IF ~Truthy(body.name) \/ typeof(body.name) # "string"
   THEN <<"name is required and must be a string">> ELSE <<>>)
  \o
  (IF body.age = Undefined \/ typeof(body.age) # "number" \/ body.age.v < 0
   THEN <<"age is required and must be a positive number">> ELSE <<>>)
  \o
  (IF ~Truthy(body.email) \/ typeof(body.email) # "string"
   THEN <<"email is required and must be a string">> ELSE <<>>)
  \o
  (IF typeof(body.isActive) # "boolean"
   THEN <<"isActive is required and must be a boolean">> ELSE <<>>)

\* the errors array of POST / and PUT /:id
validate(body) ==
  (IF ~Truthy(body.name) \/ typeof(body.name) # "string"
   THEN <<"name is required and must be a string">> ELSE <<>>)
  \o
  (IF body.age = Undefined \/ typeof(body.age) # "number" \/ body.age.v <= 0
   THEN <<"age is required and must be a positive number">> ELSE <<>>)
  \o
  (IF ~Truthy(body.email) \/ typeof(body.email) # "string"
   THEN <<"email is required and must be a string">> ELSE <<>>)
  \o
  (IF typeof(body.isActive) # "boolean"
   THEN <<"isActive is required and must be a boolean">> ELSE <<>>)

\* `Student with id ${id} not found`: the template with the number in it
notFound(id) ==
  [status |-> 404, error |-> <<"Student with id ", id.v, " not found">>]
invalidId == [status |-> 400, error |-> "Invalid ID. Must be a number."]

\* what a handler leaves behind: the list, whether saveStudents ran, and
\* the response
Outcome(list, saved, res) == [list |-> list, saved |-> saved, res |-> res]

\* router.get("/:id")
getById(list, r) ==
  LET id == Number(r.id) IN
  IF isNaN(id) THEN Outcome(list, FALSE, invalidId)
  ELSE LET i == indexOfId(list, id) IN
       IF i = 0 THEN Outcome(list, FALSE, notFound(id))
       ELSE Outcome(list, FALSE, [status |-> 200, student |-> list[i]])

\* router.get("/")
getAll(list, r) ==
  Outcome(list, FALSE, [status |-> 200, count |-> Len(list), data |-> list])

\* postStudent looking for a duplicate email before it validates the body
postStudent_ConflictFirst(list, r) ==
  LET body == fieldsOf(r)
      errors == validate(body)
      e == IF typeof(body.email) = "string"
           THEN indexOfEmail(list, body.email) ELSE 0
  IN
  IF e # 0
  THEN Outcome(list, FALSE,
               [status |-> 409,
                error |-> "A student with this email already exists",
                student |-> list[e]])
  ELSE IF Len(errors) > 0
  THEN Outcome(list, FALSE,
               [status |-> 400, error |-> "Validation failed",
                details |-> errors])
  ELSE LET newStudent == [id |-> maxIdOf(list) + 1, name |-> body.name,
                          age |-> body.age, email |-> body.email,
                          isActive |-> body.isActive]
       IN Outcome(Append(list, newStudent), TRUE,
                  [status |-> 201, message |-> "Student created",
                   student |-> newStudent])

\* router.post("/") after requireJwt
postStudent(list, r) ==
  LET body == fieldsOf(r)
      errors == validate(body)
  IN
  IF Len(errors) > 0
  THEN Outcome(list, FALSE,
               [status |-> 400, error |-> "Validation failed",
                details |-> errors])
  ELSE LET e == indexOfEmail(list, body.email) IN
       IF e # 0
       THEN Outcome(list, FALSE,
                    [status |-> 409,
                     error |-> "A student with this email already exists",
                     student |-> list[e]])
       ELSE LET newStudent == [id |-> maxIdOf(list) + 1, name |-> body.name,
                               age |-> body.age, email |-> body.email,
                               isActive |-> body.isActive]
            IN Outcome(Append(list, newStudent), TRUE,
                       [status |-> 201, message |-> "Student created",
                        student |-> newStudent])

\* putStudent storing the new record before it looks for a duplicate email
putStudent_StoresFirst(list, r) ==
  LET id == Number(r.id) IN
  IF isNaN(id) THEN Outcome(list, FALSE, invalidId)
  ELSE
  LET index == indexOfId(list, id) IN
  IF index = 0 THEN Outcome(list, FALSE, notFound(id))
  ELSE
  LET body == fieldsOf(r)
      errors == validate(body)
  IN
  IF Len(errors) > 0
  THEN Outcome(list, FALSE,
               [status |-> 400, error |-> "Validation failed",
                details |-> errors])
  ELSE LET e == indexOfOtherEmail(list, body.email, id)
           updatedStudent == [id |-> id.v, name |-> body.name,
                              age |-> body.age, email |-> body.email,
                              isActive |-> body.isActive]
       IN
       IF e # 0
       THEN Outcome([list EXCEPT ![index] = updatedStudent], FALSE,
                    [status |-> 409,
                     error |-> "Another student with this email already exists",
                     student |-> list[e]])
       ELSE Outcome([list EXCEPT ![index] = updatedStudent], TRUE,
                    [status |-> 200, message |-> "Student updated",
                     student |-> updatedStudent])

\* router.put("/:id") after requireJwt
putStudent(list, r) ==
  LET id == Number(r.id) IN
  IF isNaN(id) THEN Outcome(list, FALSE, invalidId)
  ELSE
  LET index == indexOfId(list, id) IN
  IF index = 0 THEN Outcome(list, FALSE, notFound(id))
  ELSE
  LET body == fieldsOf(r)
      errors == validate(body)
  IN
  IF Len(errors) > 0
  THEN Outcome(list, FALSE,
               [status |-> 400, error |-> "Validation failed",
                details |-> errors])
  ELSE LET e == indexOfOtherEmail(list, body.email, id) IN
       IF e # 0
       THEN Outcome(list, FALSE,
                    [status |-> 409,
                     error |-> "Another student with this email already exists",
                     student |-> list[e]])
       ELSE LET updatedStudent == [id |-> id.v, name |-> body.name,
                                   age |-> body.age, email |-> body.email,
                                   isActive |-> body.isActive]
            IN Outcome([list EXCEPT ![index] = updatedStudent], TRUE,
                       [status |-> 200, message |-> "Student updated",
                        student |-> updatedStudent])

\* router.patch("/:id") after requireJwt: the target object is changed in
\* place, field by field, as each field passes its own check
patchStudent(list, r) ==
  LET id == Number(r.id) IN
  IF isNaN(id) THEN Outcome(list, FALSE, invalidId)
  ELSE
  LET i == indexOfId(list, id) IN
  IF i = 0 THEN Outcome(list, FALSE, notFound(id))
  ELSE
  LET body == fieldsOf(r)
      l1 == IF body.name # Undefined
            THEN [list EXCEPT ![i].name = body.name] ELSE list
      l2 == IF body.age # Undefined
            THEN [l1 EXCEPT ![i].age = body.age] ELSE l1
      e == indexOfOtherEmail(l2, body.email, id)
      l3 == IF body.email # Undefined
            THEN [l2 EXCEPT ![i].email = body.email] ELSE l2
      l4 == IF body.isActive # Undefined
            THEN [l3 EXCEPT ![i].isActive = body.isActive] ELSE l3
  IN
  IF body.name # Undefined /\ typeof(body.name) # "string"
  THEN Outcome(list, FALSE,
               [status |-> 400, error |-> "Invalid 'name'. Must be a string."])
  ELSE IF body.age # Undefined
          /\ (typeof(body.age) # "number" \/ body.age.v <= 0)
  THEN Outcome(l1, FALSE,
               [status |-> 400,
                error |-> "Invalid 'age'. Must be a positive number."])
  ELSE IF body.email # Undefined /\ typeof(body.email) # "string"
  THEN Outcome(l2, FALSE,
               [status |-> 400, error |-> "Invalid 'email'. Must be a string."])
  ELSE IF body.email # Undefined /\ e # 0
  THEN Outcome(l2, FALSE,
               [status |-> 409,
                error |-> "Another student with this email already exists",
                student |-> l2[e]])
  ELSE IF body.isActive # Undefined /\ typeof(body.isActive) # "boolean"
  THEN Outcome(l3, FALSE,
               [status |-> 400,
                error |-> "Invalid 'isActive'. Must be a boolean."])
  ELSE Outcome(l4, TRUE,
               [status |-> 200, message |-> "Student partially updated",
                student |-> l4[i]])

\* deleteStudent answering with the record but leaving it in the list
deleteStudent_NoSplice(list, r) ==
  LET id == Number(r.id) IN
  IF isNaN(id) THEN Outcome(list, FALSE, invalidId)
  ELSE
  LET index == indexOfId(list, id) IN
  IF index = 0 THEN Outcome(list, FALSE, notFound(id))
  ELSE Outcome(list, TRUE,
               [status |-> 200, message |-> "Student deleted",
                student |-> list[index]])

\* deleteStudent removing the last element instead of the one found
deleteStudent_RemovesLast(list, r) ==
  LET id == Number(r.id) IN
  IF isNaN(id) THEN Outcome(list, FALSE, invalidId)
  ELSE
  LET index == indexOfId(list, id) IN
  IF index = 0 THEN Outcome(list, FALSE, notFound(id))
  ELSE Outcome(SubSeq(list, 1, Len(list) - 1), TRUE,
               [status |-> 200, message |-> "Student deleted",
                student |-> list[index]])

\* router.delete("/:id") after requireJwt
deleteStudent(list, r) ==
  LET id == Number(r.id) IN
  IF isNaN(id) THEN Outcome(list, FALSE, invalidId)
  ELSE
  LET index == indexOfId(list, id) IN
  IF index = 0 THEN Outcome(list, FALSE, notFound(id))
  ELSE Outcome(SubSeq(list, 1, index - 1) \o SubSeq(list, index + 1, Len(list)),
               TRUE,
               [status |-> 200, message |-> "Student deleted",
                student |-> list[index]])

\* app.post("/auth/login-jwt")
loginJwt(r, clock) ==
  LET o == IF r.body = Undefined THEN <<>> ELSE r.body
      username == get(o, "username")
      password == get(o, "password")
  IN
  IF ~Truthy(username) \/ ~Truthy(password)
  THEN [status |-> 400, error |-> "username and password are required"]
  ELSE IF username # Str(DEMO_USER.username)
          \/ password # Str(DEMO_USER.password)
  THEN [status |-> 401, error |-> "Invalid credentials"]
  ELSE [status |-> 200, message |-> "Login successful",
        token |-> <<jwtSign([username |-> DEMO_USER.username,
                             role |-> DEMO_USER.role],
                            JWT_SECRET, ExpiresIn, clock)>>]

\* loginCookie comparing the username only
loginCookie_UsernameOnly(r) ==
  LET o == IF r.body = Undefined THEN <<>> ELSE r.body
      username == get(o, "username")
      password == get(o, "password")
  IN
  IF ~Truthy(username) \/ ~Truthy(password)
  THEN [status |-> 400, error |-> "username and password are required"]
  ELSE IF username # Str(DEMO_USER.username)
  THEN [status |-> 401, error |-> "Invalid credentials"]
  ELSE [status |-> 200, message |-> "Cookie login successful",
        setCookie |-> [sessionId |-> Str(<<"dummy-session-id">>)]]

\* app.post("/auth/login-cookie")
loginCookie(r) ==
  LET o == IF r.body = Undefined THEN <<>> ELSE r.body
      username == get(o, "username")
      password == get(o, "password")
  IN
  IF ~Truthy(username) \/ ~Truthy(password)
  THEN [status |-> 400, error |-> "username and password are required"]
  ELSE IF username # Str(DEMO_USER.username)
          \/ password # Str(DEMO_USER.password)
  THEN [status |-> 401, error |-> "Invalid credentials"]
  ELSE [status |-> 200, message |-> "Cookie login successful",
        setCookie |-> [sessionId |-> Str(<<"dummy-session-id">>)]]

\* app.post("/auth/logout-cookie")
logoutCookie(r) ==
  [status |-> 200, message |-> "Logged out cookie session.",
   clearCookie |-> "sessionId"]

(* ------------------------------ requests ------------------------------- *)
Request(method, path, id, authorization, sessionId, body) ==
  [method |-> method, path |-> path, id |-> id,
   authorization |-> authorization, sessionId |-> sessionId, body |-> body]

Bearer(token) == Str(<<Word("Bearer"), SP>> \o token)

\* the request as the request logger sees it: with the time it arrived
Arrived(r, clock) ==
  [f \in DOMAIN r \cup {"at"} |-> IF f = "at" THEN clock ELSE r[f]]

\* what fs.writeFileSync throws when the data file cannot be written: a
\* system error, which has a message and no status
WriteError == [status |-> Undefined, message |-> Str(<<"ENOSPC">>)]

\* the file after a write that threw: as it was, or cut short
Truncated == <<>>

\* errorHandler answering 500 whatever the exception carries
errorHandler_Always500(err) ==
  [status |-> 500, error |-> "Internal Server Error",
   message |-> IF Truthy(err.message) THEN err.message
               ELSE Str(<<"Something went wrong.">>)]

\* the generic error handler: err.status || 500, err.message || "Something
\* went wrong."
errorHandler(err) ==
  [status |-> IF Truthy(err.status) THEN err.status.v ELSE 500,
   error |-> "Internal Server Error",
   message |-> IF Truthy(err.message) THEN err.message
               ELSE Str(<<"Something went wrong.">>)]

\* IsAsync with the create handler declared async
IsAsync_Create(name) == name = "post"

\* whether the handler of the route is an async function: none is, every
\* handler is a plain (req, res) => {...} that calls saveStudents itself
IsAsync(name) == FALSE

\* a handler throws err.  The router calls a handler inside try/catch and
\* gives what it throws to the error handler; what an async function throws
\* is a rejected promise nobody handles, which ends the process and leaves
\* the request unanswered.
handleThrow(name, err) ==
  IF IsAsync(name) THEN [running |-> FALSE, res |-> [status |-> 0]]
  ELSE [running |-> TRUE, res |-> errorHandler(err)]

\* the handler of a route has run to the outcome out.  Its changes to the
\* list are made before saveStudents is called, so they stay when the
\* write throws.
Handled(name, out) ==
  /\ students' = out.list
  /\ handler' = name
  /\ IF out.saved /\ disk = "full"
     THEN LET thrown == handleThrow(name, WriteError) IN
          /\ file' \in {file, Truncated}
          /\ resp' = thrown.res
          /\ running' = thrown.running
     ELSE /\ file' = IF out.saved THEN stringify(out.list) ELSE file
          /\ resp' = out.res
          /\ UNCHANGED running

\* a public route
PublicRoute(r, name, out) ==
  /\ running
  /\ req' = Arrived(r, now)
  /\ Handled(name, out)
  /\ UNCHANGED <<now, tokens, jar, disk>>

\* a route behind requireJwt: the handler runs only when the guard calls
\* next(); its outcome is the new list, the file when saveStudents ran, and
\* the response
JwtRoute(r, name, out) ==
  LET g == requireJwt(r, now) IN
  /\ running
  /\ req' = Arrived(r, now)
  /\ IF g.next
     THEN Handled(name, out)
     ELSE /\ UNCHANGED <<students, file, running>>
          /\ resp' = g.res
          /\ handler' = "none"
  /\ UNCHANGED <<now, tokens, jar, disk>>

\* a route behind requireCookieLogin
CookieRoute(r, name) ==
  LET g == requireCookieLogin(r) IN
  /\ running
  /\ req' = Arrived(r, now)
  /\ IF g.next
     THEN /\ resp' = [status |-> 200, user |-> g.user]
          /\ handler' = name
     ELSE /\ resp' = g.res
          /\ handler' = "none"
  /\ UNCHANGED <<students, file, now, tokens, jar, disk, running>>

\* app.get("/auth/me") and router.get("/protected/jwt-only"): the decoded
\* token is sent back as user
whoAmI(list, r) ==
  Outcome(list, FALSE,
          [status |-> 200, user |-> requireJwt(r, now).user])

Me(r) ==
  /\ r.method = "GET" /\ r.path = "/auth/me"
  /\ JwtRoute(r, "me", whoAmI(students, r))

JwtOnly(r) ==
  /\ r.method = "GET" /\ r.path = "/students/protected/jwt-only"
  /\ JwtRoute(r, "jwtOnly", whoAmI(students, r))

MeCookie(r) ==
  /\ r.method = "GET" /\ r.path = "/auth/me-cookie"
  /\ CookieRoute(r, "meCookie")

\* POST /auth/login-jwt; the client keeps the token of a 200 response
LoginJwt(r) ==
  LET res == loginJwt(r, now) IN
  /\ running
  /\ r.method = "POST" /\ r.path = "/auth/login-jwt"
  /\ res.status = 200 => Cardinality(tokens \cup {res.token[1]}) <= MaxTokens
  /\ req' = Arrived(r, now)
  /\ resp' = res
  /\ handler' = "loginJwt"
  /\ tokens' = IF res.status = 200 THEN tokens \cup {res.token[1]} ELSE tokens
  /\ UNCHANGED <<students, file, now, jar, disk, running>>

\* POST /auth/login-cookie; the client's jar takes the cookie a response sets
LoginCookie(r) ==
  LET res == loginCookie(r) IN
  /\ running
  /\ r.method = "POST" /\ r.path = "/auth/login-cookie"
  /\ req' = Arrived(r, now)
  /\ resp' = res
  /\ handler' = "loginCookie"
  /\ jar' = IF "setCookie" \in DOMAIN res THEN res.setCookie.sessionId ELSE jar
  /\ UNCHANGED <<students, file, now, tokens, disk, running>>

\* POST /auth/logout-cookie; the client's jar drops the cleared cookie
LogoutCookie(r) ==
  /\ running
  /\ r.method = "POST" /\ r.path = "/auth/logout-cookie"
  /\ req' = Arrived(r, now)
  /\ resp' = logoutCookie(r)
  /\ handler' = "logoutCookie"
  /\ jar' = Undefined
  /\ UNCHANGED <<students, file, now, tokens, disk, running>>

\* time passes between two requests
Tick(dt) ==
  /\ now + dt <= MaxTime
  /\ now' = now + dt
  /\ UNCHANGED <<students, file, tokens, jar, req, resp, handler, disk,
                 running>>

GetStudents(r) ==
  /\ r.method = "GET" /\ r.path = "/students"
  /\ PublicRoute(r, "getAll", getAll(students, r))

GetStudent(r) ==
  /\ r.method = "GET" /\ r.path = "/students/:id"
  /\ PublicRoute(r, "getById", getById(students, r))

PostStudent(r) ==
  /\ r.method = "POST" /\ r.path = "/students"
  /\ maxIdOf(students) < MaxId
  /\ JwtRoute(r, "post", postStudent(students, r))

PutStudent(r) ==
  /\ r.method = "PUT" /\ r.path = "/students/:id"
  /\ JwtRoute(r, "put", putStudent(students, r))

PatchStudent(r) ==
  /\ r.method = "PATCH" /\ r.path = "/students/:id"
  /\ JwtRoute(r, "patch", patchStudent(students, r))

DeleteStudent(r) ==
  /\ r.method = "DELETE" /\ r.path = "/students/:id"
  /\ JwtRoute(r, "delete", deleteStudent(students, r))

(* ------------------------------- inputs -------------------------------- *)
SampleName == <<"Al">>
EmailA == <<"a", "@", "x">>
EmailC == <<"c", "@", "x">>
EmailUpperA == <<"A", "@", "x">>
EmailB == <<"b", "@", "x">>

\* a JSON object with the given student fields; undefined leaves the key out
Body(name, age, email, isActive) ==
  LET val == [name |-> name, age |-> age, email |-> email,
              isActive |-> isActive]
  IN [f \in {g \in DOMAIN val : val[g] # Undefined} |-> val[f]]

\* path segments: the ids up to MaxId and a segment that is not a number
IdParams ==
  {<<c>> : c \in {d \in Digits : DigitVal(d) \in 1..MaxId}}
    \cup {<<"a", "b", "c">>}

\* the token a login at the given second returns
issuedAt(clock) ==
  jwtSign([username |-> DEMO_USER.username, role |-> DEMO_USER.role],
          JWT_SECRET, ExpiresIn, clock)

\* bodies for create and replace
FullBodies ==
  { Body(Str(SampleName), Num(23), Str(EmailUpperA), Bool(TRUE)),
    Body(Str(SampleName), Num(23), Str(EmailB), Bool(TRUE)),
    Body(Str(SampleName), Num(0), Str(EmailUpperA), Bool(TRUE)),
    Body(Str(SampleName), Num(-1), Str(EmailB), Bool(TRUE)),
    Body(Str(<<>>), Num(0), Undefined, Undefined),
    Body(Num(7), Num(23), Str(EmailUpperA), Str(<<"yes">>)),
    [id |-> Num(9), name |-> Str(SampleName), age |-> Num(23),
     email |-> Str(EmailUpperA), isActive |-> Bool(TRUE)] }

\* bodies for partial update
PatchBodies ==
  { Body(Undefined, Num(23), Undefined, Undefined),
    Body(Str(SampleName), Num(-1), Undefined, Undefined),
    Body(Num(7), Undefined, Undefined, Undefined),
    Body(Undefined, Num(0), Undefined, Undefined),
    Body(Undefined, Undefined, Str(EmailUpperA), Undefined),
    Body(Undefined, Num(23), Num(7), Undefined),
    Body(Undefined, Undefined, Str(EmailB), Str(<<"yes">>)),
    Body(Undefined, Undefined, Undefined, Bool(FALSE)) }

\* a body that fails every check of create and replace
BadBody == Body(Str(<<>>), Num(0), Undefined, Undefined)

\* path segments naming the two sample students
SampleParams == {<<"1">>, <<"2">>}

\* Authorization headers built from the tokens the clients hold: those
\* still inside their hour, and those past it
FreshHeaders == {Bearer(<<t>>) : t \in {u \in tokens : now < u.exp}}
StaleHeaders == {Bearer(<<t>>) : t \in {u \in tokens : now >= u.exp}}

\* requests that must not pass the bearer guard
Unauthorized == {Undefined} \cup StaleHeaders

GetRequests ==
  {Request("GET", "/students", <<>>, Undefined, Undefined, Undefined)}

\* GET /students/:id for every path segment, and for /students/999
GetByIdRequests ==
  {Request("GET", "/students/:id", p, Undefined, Undefined, Undefined) :
     p \in IdParams \cup {<<"9", "9", "9">>}}

PostRequests ==
  {Request("POST", "/students", <<>>, h, Undefined, b) :
     h \in FreshHeaders, b \in FullBodies}
  \cup {Request("POST", "/students", <<>>, h, Undefined,
                Body(Str(SampleName), Num(23), Str(EmailB), Bool(TRUE))) :
          h \in Unauthorized}

PutRequests ==
  {Request("PUT", "/students/:id", p, h, Undefined, b) :
     p \in SampleParams, h \in FreshHeaders, b \in FullBodies}
  \cup {Request("PUT", "/students/:id", p, h, Undefined, BadBody) :
          p \in IdParams \ SampleParams, h \in FreshHeaders}
  \cup {Request("PUT", "/students/:id", <<"1">>, h, Undefined,
                Body(Str(SampleName), Num(23), Str(EmailUpperA), Bool(TRUE))) :
          h \in Unauthorized}

PatchRequests ==
  {Request("PATCH", "/students/:id", p, h, Undefined, b) :
     p \in SampleParams, h \in FreshHeaders, b \in PatchBodies}
  \cup {Request("PATCH", "/students/:id", p, h, Undefined,
                Body(Undefined, Num(0), Undefined, Undefined)) :
          p \in IdParams \ SampleParams, h \in FreshHeaders}
  \cup {Request("PATCH", "/students/:id", <<"1">>, h, Undefined,
                Body(Undefined, Num(23), Undefined, Undefined)) :
          h \in Unauthorized}

DeleteRequests ==
  {Request("DELETE", "/students/:id", p, h, Undefined, Undefined) :
     p \in IdParams, h \in FreshHeaders}
  \cup {Request("DELETE", "/students/:id", <<"1">>, h, Undefined, Undefined) :
          h \in Unauthorized}

(* ---------------------------- specification ---------------------------- *)
NoRequest == [method |-> "none", path |-> ""]
NoResponse == [status |-> 0]

\* data/students.json as shipped (two of the sample records)
SampleStudents ==
  <<[id |-> 1, name |-> Str(<<"Al">>), age |-> Num(20),
     email |-> Str(EmailA), isActive |-> Bool(TRUE)],
    [id |-> 2, name |-> Str(<<"Bo">>), age |-> Num(20),
     email |-> Str(EmailB), isActive |-> Bool(TRUE)]>>

\* after loadStudents(): the list is what the file holds.  The clients
\* hold one token that has expired and one that is still good.
Init ==
  /\ students = SampleStudents
  /\ file = stringify(SampleStudents)
  /\ now = ExpiresIn
  /\ tokens = {issuedAt(0), issuedAt(ExpiresIn \div 2)}
  /\ jar = Undefined
  /\ req = NoRequest
  /\ resp = NoResponse
  /\ handler = "none"
  /\ disk = "ok"
  /\ running = TRUE

Next ==
  \/ \E r \in GetRequests : GetStudents(r)
  \/ \E r \in GetByIdRequests : GetStudent(r)
  \/ \E r \in PostRequests : PostStudent(r)
  \/ \E r \in PutRequests : PutStudent(r)
  \/ \E r \in PatchRequests : PatchStudent(r)
  \/ \E r \in DeleteRequests : DeleteStudent(r)

Spec == Init /\ [][Next]_vars

(* ------------------- the bearer guard on every route ------------------- *)
\* a token signed with another key, carrying the same claims
forged(t) == [t EXCEPT !.sig = "another-key"]

\* header shapes: absent, empty, another scheme, no token, two spaces,
\* lower-case scheme, empty token, a token that is no JWT, a forged token,
\* and the tokens the clients hold
GuardHeaders ==
  { Undefined,
    Str(<<>>),
    Str(<<Word("Basic"), SP, Word("abc")>>),
    Str(<<Word("Bearer")>>),
    Str(<<Word("bearer"), SP, Word("abc")>>),
    Bearer(<<>>),
    Bearer(<<Word("abc")>>) }
  \cup {Str(<<Word("Bearer"), SP, SP, t>>) : t \in tokens}
  \cup {Bearer(<<forged(t)>>) : t \in tokens}
  \cup {Bearer(<<t>>) : t \in tokens}

GuardPostRequests ==
  {Request("POST", "/students", <<>>, h, Undefined,
           Body(Str(SampleName), Num(23), Str(EmailB), Bool(TRUE))) :
     h \in GuardHeaders}

GuardPutRequests ==
  {Request("PUT", "/students/:id", <<"1">>, h, Undefined,
           Body(Str(SampleName), Num(23), Str(EmailUpperA), Bool(TRUE))) :
     h \in GuardHeaders}

GuardPatchRequests ==
  {Request("PATCH", "/students/:id", <<"1">>, h, Undefined, b) :
     h \in GuardHeaders,
     b \in {Body(Undefined, Num(23), Undefined, Undefined),
            Body(Str(<<"Bo">>), Num(-1), Undefined, Undefined)}}

GuardDeleteRequests ==
  {Request("DELETE", "/students/:id", p, h, Undefined, Undefined) :
     p \in {<<"2">>, <<"a", "b", "c">>}, h \in GuardHeaders}

MeRequests ==
  {Request("GET", "/auth/me", <<>>, h, Undefined, Undefined) :
     h \in GuardHeaders}

JwtOnlyRequests ==
  {Request("GET", "/students/protected/jwt-only", <<>>, h, Undefined,
           Undefined) : h \in GuardHeaders}

NextGuard ==
  \/ \E r \in GuardPostRequests : PostStudent(r)
  \/ \E r \in GuardPutRequests : PutStudent(r)
  \/ \E r \in GuardPatchRequests : PatchStudent(r)
  \/ \E r \in GuardDeleteRequests : DeleteStudent(r)
  \/ \E r \in MeRequests : Me(r)
  \/ \E r \in JwtOnlyRequests : JwtOnly(r)

SpecGuard == Init /\ [][NextGuard]_vars

(* ------------------------ logins, tokens and time ----------------------- *)
\* request bodies of the two login routes
Credentials ==
  { [username |-> Str(DEMO_USER.username), password |-> Str(DEMO_USER.password)],
    [username |-> Str(DEMO_USER.username), password |-> Str(<<"letmein">>)],
    [username |-> Str(<<"admin">>), password |-> Str(DEMO_USER.password)],
    [username |-> Str(DEMO_USER.username)],
    [username |-> Str(<<>>), password |-> Str(DEMO_USER.password)],
    [password |-> Str(DEMO_USER.password)] }

LoginJwtRequests ==
  {Request("POST", "/auth/login-jwt", <<>>, Undefined, Undefined, b) :
     b \in Credentials \cup {Undefined}}

LoginCookieRequests ==
  {Request("POST", "/auth/login-cookie", <<>>, Undefined, Undefined, b) :
     b \in Credentials \cup {Undefined}}

\* the cookie a browser sends is the one in its jar; other clients send
\* what they like: no cookie, "sessionId=" with an empty value, the fixed
\* value, or a guess
CookieValues ==
  {jar, Undefined, Str(<<>>), Str(<<"dummy-session-id">>), Str(<<"guess">>)}

LogoutRequests ==
  {Request("POST", "/auth/logout-cookie", <<>>, Undefined, c, Undefined) :
     c \in {jar}}

MeCookieRequests ==
  {Request("GET", "/auth/me-cookie", <<>>, Undefined, c, Undefined) :
     c \in CookieValues}

SessionHeaders ==
  {Undefined} \cup {Bearer(<<t>>) : t \in tokens}
  \cup {Bearer(<<forged(t)>>) : t \in tokens}

SessionMeRequests ==
  {Request("GET", "/auth/me", <<>>, h, Undefined, Undefined) :
     h \in SessionHeaders}

SessionDeleteRequests ==
  {Request("DELETE", "/students/:id", <<"2">>, h, Undefined, Undefined) :
     h \in SessionHeaders}

SessionPatchRequests ==
  {Request("PATCH", "/students/:id", <<"1">>, h, Undefined,
           Body(Undefined, Num(23), Undefined, Undefined)) :
     h \in SessionHeaders}

\* the clock advances by an hour less a second, or by a whole hour
TickSteps == {ExpiresIn - 1, ExpiresIn}

\* the server has just started: nobody has logged in yet
InitAuth ==
  /\ students = SampleStudents
  /\ file = stringify(SampleStudents)
  /\ now = 0
  /\ tokens = {}
  /\ jar = Undefined
  /\ req = NoRequest
  /\ resp = NoResponse
  /\ handler = "none"
  /\ disk = "ok"
  /\ running = TRUE

NextAuth ==
  \/ \E r \in LoginJwtRequests : LoginJwt(r)
  \/ \E r \in LoginCookieRequests : LoginCookie(r)
  \/ \E r \in LogoutRequests : LogoutCookie(r)
  \/ \E r \in SessionMeRequests : Me(r)
  \/ \E r \in MeCookieRequests : MeCookie(r)
  \/ \E r \in SessionDeleteRequests : DeleteStudent(r)
  \/ \E r \in SessionPatchRequests : PatchStudent(r)
  \/ \E dt \in TickSteps : Tick(dt)

SpecAuth == InitAuth /\ [][NextAuth]_vars

(* ---------------------- field by field validation ---------------------- *)
\* values a client may send for each student field: one the rules of create
\* accept, the empty or zero value, and a value of another type
FieldValues ==
  [name |-> {Str(<<"Cy">>), Str(<<>>), Num(7)},
   age |-> {Num(23), Num(0), Num(-1), Str(<<"23">>)},
   email |-> {Str(EmailUpperA), Str(<<>>), Num(7)},
   isActive |-> {Bool(FALSE), Str(<<"yes">>), Num(0)}]

\* PATCH bodies carrying exactly one field
FieldBodies ==
  UNION {{[g \in {f} |-> v] : v \in FieldValues[f]} : f \in DOMAIN FieldValues}

\* a body create and replace accept, with one field set to the given value
FullBodyWith(f, v) ==
  [[name |-> Str(SampleName), age |-> Num(23), email |-> Str(EmailUpperA),
    isActive |-> Bool(TRUE)] EXCEPT ![f] = v]

FieldPatchRequests ==
  {Request("PATCH", "/students/:id", p, h, Undefined, b) :
     p \in SampleParams, h \in FreshHeaders,
     b \in FieldBodies \cup {Body(Undefined, Num(23), Undefined, Bool(FALSE))}}

FieldPostRequests ==
  {Request("POST", "/students", <<>>, h, Undefined, b) :
     h \in FreshHeaders,
     b \in {FullBodyWith("name", Str(SampleName)),
            FullBodyWith("name", Str(<<>>))}}

FieldPutRequests ==
  {Request("PUT", "/students/:id", p, h, Undefined, b) :
     p \in SampleParams, h \in FreshHeaders,
     b \in {FullBodyWith("name", Str(SampleName)),
            FullBodyWith("email", Str(<<>>))}}

FieldDeleteRequests ==
  {Request("DELETE", "/students/:id", p, h, Undefined, Undefined) :
     p \in SampleParams, h \in FreshHeaders}

NextFields ==
  \/ \E r \in FieldPostRequests : PostStudent(r)
  \/ \E r \in FieldPutRequests : PutStudent(r)
  \/ \E r \in FieldPatchRequests : PatchStudent(r)
  \/ \E r \in FieldDeleteRequests : DeleteStudent(r)

SpecFields == Init /\ [][NextFields]_vars

(* ------------------- validation of create and replace ------------------ *)
\* values for each field of a create or replace body: accepted, empty or
\* zero, of another type, and absent
PayloadValues ==
  [name |-> {Str(<<"Cy">>), Str(<<>>), Num(7), Undefined},
   age |-> {Num(23), Num(0), Str(<<"23">>), Undefined},
   email |-> {Str(EmailUpperA), Str(<<>>), Num(7), Undefined},
   isActive |-> {Bool(FALSE), Str(<<"yes">>), Undefined}]

\* every combination of those values, and a request without a body
Payloads ==
  {Body(n, a, e, i) : n \in PayloadValues.name, a \in PayloadValues.age,
                      e \in PayloadValues.email, i \in PayloadValues.isActive}
  \cup {Undefined}

PayloadPostRequests ==
  {Request("POST", "/students", <<>>, h, Undefined, b) :
     h \in FreshHeaders, b \in Payloads}

PayloadPutRequests ==
  {Request("PUT", "/students/:id", <<"1">>, h, Undefined, b) :
     h \in FreshHeaders, b \in Payloads}

NextValidate ==
  \/ \E r \in PayloadPostRequests : PostStudent(r)
  \/ \E r \in PayloadPutRequests : PutStudent(r)
  \/ \E r \in FieldDeleteRequests : DeleteStudent(r)

SpecValidate == Init /\ [][NextValidate]_vars

(* --------------------- handlers that throw ----------------------------- *)
\* the device that holds the data file fills up, or has room again
DiskFills ==
  /\ running /\ disk = "ok"
  /\ disk' = "full"
  /\ UNCHANGED <<students, file, now, tokens, jar, req, resp, handler,
                 running>>

DiskFrees ==
  /\ running /\ disk = "full"
  /\ disk' = "ok"
  /\ UNCHANGED <<students, file, now, tokens, jar, req, resp, handler,
                 running>>

\* a body that is not JSON, as the client sent it
Malformed == [t |-> "text", v |-> <<"{">>]

\* what express.json() passes on for a body it cannot parse: a syntax error
\* that carries status 400
ParseError == [status |-> Num(400), message |-> Str(<<"Unexpected end">>)]

\* app.use(express.json()) comes before every route: a request whose body
\* cannot be parsed goes to the error handler and reaches no guard and no
\* handler
MalformedJson(r) ==
  /\ running
  /\ r.body = Malformed
  /\ req' = Arrived(r, now)
  /\ resp' = errorHandler(ParseError)
  /\ handler' = "none"
  /\ UNCHANGED <<students, file, now, tokens, jar, disk, running>>

\* one request of each kind that writes the file, reads and refused
\* requests, and requests with a body that is not JSON
FaultRequests ==
  {Request("POST", "/students", <<>>, h, Undefined,
           Body(Str(SampleName), Num(23), Str(EmailC), Bool(TRUE))) :
     h \in FreshHeaders \cup {Undefined}}
  \cup {Request("PUT", "/students/:id", <<"1">>, h, Undefined,
                Body(Str(SampleName), Num(23), Str(EmailA), Bool(FALSE))) :
          h \in FreshHeaders}
  \cup {Request("PATCH", "/students/:id", <<"2">>, h, Undefined,
                Body(Undefined, a, Undefined, Undefined)) :
          h \in FreshHeaders, a \in {Num(23), Num(0)}}
  \cup {Request("DELETE", "/students/:id", p, h, Undefined, Undefined) :
          h \in FreshHeaders, p \in {<<"1">>, <<"9">>}}
  \cup {Request("GET", "/students", <<>>, Undefined, Undefined, Undefined)}
  \cup {Request("POST", "/students", <<>>, h, Undefined, Malformed) :
          h \in FreshHeaders \cup {Undefined}}

NextFaults ==
  \/ DiskFills
  \/ DiskFrees
  \/ \E r \in FaultRequests : MalformedJson(r)
  \/ \E r \in FaultRequests : r.body # Malformed /\ GetStudents(r)
  \/ \E r \in FaultRequests : r.body # Malformed /\ PostStudent(r)
  \/ \E r \in FaultRequests : r.body # Malformed /\ PutStudent(r)
  \/ \E r \in FaultRequests : r.body # Malformed /\ PatchStudent(r)
  \/ \E r \in FaultRequests : r.body # Malformed /\ DeleteStudent(r)

SpecFaults == Init /\ [][NextFaults]_vars

(* ------------------- two creates in flight at once --------------------- *)
\* POST /students as the statements the event loop runs one after another:
\* requireJwt (server.js 36-67), the checks and the next id (students.js
\* 64-106), students.push (108), saveStudents (109), res.status(201) (111)
StepOrder == <<"guard", "check", "push", "save", "respond">>

\* MayYieldAfter with an awaited operation between the next id and the push
MayYieldAfter_AwaitBeforePush(name) == name \in {"guard", "check", "respond"}

\* MayYieldAfter with an awaited operation between the push and the save
MayYieldAfter_AwaitBeforeSave(name) == name \in {"guard", "push", "respond"}

\* Where another callback may run before the request goes on.  The handler
\* calls nothing asynchronous: find, reduce and push are plain calls and
\* saveStudents uses fs.writeFileSync, so once entered it runs to its
\* response.  jwt.verify is given a callback; whether it is called before
\* jwt.verify returns is the library's choice, so the loop may take
\* another callback between the guard and the handler.
MayYieldAfter(name) == name \in {"guard", "respond"}

\* the orders in which the loop may run the statements of calls 1 and 2:
\* it leaves a call only where that call may yield
\* (ran[c] statements of call c have run and call last ran the latest one;
\* last is 0 before the first statement)
RECURSIVE schedulesFrom(_, _)
schedulesFrom(ran, last) ==
  LET n == Len(StepOrder)
      mayRun == {c \in {1, 2} :
                   /\ ran[c] < n
                   /\ \/ last \in {0, c}
                      \/ MayYieldAfter(StepOrder[ran[last]])}
  IN IF ran[1] = n /\ ran[2] = n THEN {<<>>}
     ELSE UNION {{<<c>> \o rest :
                    rest \in schedulesFrom([ran EXCEPT ![c] = @ + 1], c)} :
                 c \in mayRun}

Schedules == schedulesFrom(<<0, 0>>, 0)

\* a call that has arrived and has run none of its statements
Pending(r) ==
  [r |-> r, ran |-> 0, returned |-> FALSE, newStudent |-> Undefined,
   res |-> [status |-> 0]]

\* the next statement of call c, run on the shared list and file; a call
\* that has returned runs nothing more
step(m, c, clock) ==
  LET me == m.call[c]
      name == StepOrder[me.ran + 1]
      body == fieldsOf(me.r)
      errors == validate(body)
      e == indexOfEmail(m.list, body.email)
      g == requireJwt(me.r, clock)
      after(list, text, call) ==
        [list |-> list, file |-> text,
         call |-> [m.call EXCEPT ![c] = [call EXCEPT !.ran = me.ran + 1]]]
      return(res) ==
        after(m.list, m.file, [me EXCEPT !.returned = TRUE, !.res = res])
  IN
  IF me.returned THEN after(m.list, m.file, me)
  ELSE
  CASE name = "guard" ->
         IF g.next THEN after(m.list, m.file, me) ELSE return(g.res)
    [] name = "check" ->
         IF Len(errors) > 0
         THEN return([status |-> 400, error |-> "Validation failed",
                      details |-> errors])
         ELSE IF e # 0
         THEN return([status |-> 409,
                      error |-> "A student with this email already exists",
                      student |-> m.list[e]])
         ELSE after(m.list, m.file,
                    [me EXCEPT !.newStudent =
                       [id |-> maxIdOf(m.list) + 1, name |-> body.name,
                        age |-> body.age, email |-> body.email,
                        isActive |-> body.isActive]])
    [] name = "push" ->
         after(Append(m.list, me.newStudent), m.file, me)
    [] name = "save" ->
         after(m.list, stringify(m.list), me)
    [] name = "respond" ->
         return([status |-> 201, message |-> "Student created",
                 student |-> me.newStudent])

\* the statements of the schedule from position i on
RECURSIVE runFrom(_, _, _, _)
runFrom(m, s, i, clock) ==
  IF i > Len(s) THEN m ELSE runFrom(step(m, s[i], clock), s, i + 1, clock)

\* two creates handled under the schedule s
run(list, text, r1, r2, s, clock) ==
  runFrom([list |-> list, file |-> text,
           call |-> <<Pending(r1), Pending(r2)>>], s, 1, clock)

\* two POST /students requests arrive before either has been handled; the
\* loop runs them under one of the schedules.  req and resp hold the two
\* requests and the two answers.
ConcurrentCreates(r1, r2) ==
  /\ running /\ disk = "ok"
  /\ r1.method = "POST" /\ r1.path = "/students"
  /\ r2.method = "POST" /\ r2.path = "/students"
  /\ maxIdOf(students) < MaxId
  /\ \E s \in Schedules :
       LET m == run(students, file, r1, r2, s, now) IN
       /\ students' = m.list
       /\ file' = m.file
       /\ resp' = [first |-> m.call[1].res, second |-> m.call[2].res]
  /\ req' = [first |-> Arrived(r1, now), second |-> Arrived(r2, now)]
  /\ handler' = "post, post"
  /\ UNCHANGED <<now, tokens, jar, disk, running>>

\* creates with two emails, one with an invalid body and one without a
\* token
RaceRequests ==
  {Request("POST", "/students", <<>>, h, Undefined,
           Body(Str(SampleName), Num(23), Str(m), Bool(TRUE))) :
     h \in FreshHeaders, m \in {EmailB, EmailC}}
  \cup {Request("POST", "/students", <<>>, h, Undefined, BadBody) :
          h \in FreshHeaders}
  \cup {Request("POST", "/students", <<>>, Undefined, Undefined,
                Body(Str(SampleName), Num(23), Str(EmailC), Bool(TRUE)))}

NextRace ==
  \/ \E r1, r2 \in RaceRequests : ConcurrentCreates(r1, r2)
  \/ \E r \in RaceRequests : PostStudent(r)
  \/ \E r \in DeleteRequests : DeleteStudent(r)

SpecRace == Init /\ [][NextRace]_vars

(* ============================== claims ================================= *)
Mutating == {"POST", "PUT", "PATCH", "DELETE"}

StudentPaths == {"/students", "/students/:id"}

\* the routes registered behind requireJwt
BearerProtected(r) ==
  \/ r.method \in Mutating /\ r.path \in StudentPaths
  \/ r.method = "GET"
     /\ r.path \in {"/auth/me", "/students/protected/jwt-only"}

\* a token the server signed, not yet past its exp at the given second
ValidToken(tok, clock) ==
  /\ tok.k = "jwt"
  /\ tok.sig = JWT_SECRET
  /\ clock < tok.exp

\* the header is the word Bearer, one space, and the rest without a space
WellFormed(h) ==
  /\ h.t = "string"
  /\ Len(h.v) >= 2
  /\ h.v[1] = Word("Bearer")
  /\ h.v[2] = SP
  /\ \A i \in 3..Len(h.v) : h.v[i] # SP

\* what follows "Bearer " in a well-formed header
Credential(h) == SubSeq(h.v, 3, Len(h.v))

CarriesValidBearer(r) ==
  /\ WellFormed(r.authorization)
  /\ Len(Credential(r.authorization)) = 1
  /\ ValidToken(Credential(r.authorization)[1], r.at)

\* C1: no two students in the in-memory store have emails that are equal
\* under case-insensitive comparison, after any sequence of requests.
C1_UniqueEmails ==
  \A i, j \in DOMAIN students :
    i # j => toLowerCase(students[i].email.v) # toLowerCase(students[j].email.v)

\* a create was refused because its email differs from a stored one only
\* by letter case
C1_Witness ==
  /\ handler = "post"
  /\ resp.status = 409
  /\ req.body.email # resp.student.email
  /\ Len(students) = 2

\* C2: every student in the store has an id different from every other
\* student's id, after any sequence of requests.
C2_UniqueIds ==
  \A i, j \in DOMAIN students : i # j => students[i].id # students[j].id

\* a create succeeded in a store that had lost its first student
C2_Witness ==
  /\ handler = "post"
  /\ resp.status = 201
  /\ Len(students) = 2
  /\ students[1].id # 1

MaxOf(S) == CHOOSE m \in S : \A x \in S : x <= m

IdsOf(list) == {list[i].id : i \in DOMAIN list}

\* a create payload every field of which satisfies its rule
ValidPayload(b) ==
  /\ b # Undefined
  /\ {"name", "age", "email", "isActive"} \subseteq DOMAIN b
  /\ b.name.t = "string" /\ b.name.v # <<>>
  /\ b.age.t = "number" /\ b.age.v > 0
  /\ b.email.t = "string" /\ b.email.v # <<>>
  /\ b.isActive.t = "boolean"

EmailTaken(list, email) ==
  \E i \in DOMAIN list : toLowerCase(list[i].email.v) = toLowerCase(email.v)

\* C4: a valid create (valid bearer, valid payload, no duplicate email) is
\* answered 201 with a student whose id is one plus the greatest id in the
\* store before the call, or 1 when the store was empty, whatever id the
\* body carries; that student is the one appended to the store.
C4_CreateAssignsNextId ==
  [][(/\ req'.method = "POST"
      /\ req'.path = "/students"
      /\ CarriesValidBearer(req')
      /\ ValidPayload(req'.body)
      /\ ~EmailTaken(students, req'.body.email))
     => (/\ resp'.status = 201
         /\ resp'.student.id =
              (IF students = <<>> THEN 1 ELSE MaxOf(IdsOf(students)) + 1)
         /\ students' = Append(students, resp'.student))]_vars

\* a create whose body carried an id was stored, into an empty store,
\* under id 1
C4_Witness ==
  /\ handler = "post"
  /\ resp.status = 201
  /\ "id" \in DOMAIN req.body
  /\ resp.student.id = 1
  /\ req.body.id # Num(resp.student.id)
  /\ students = <<resp.student>>

\* C5: after every student request has been answered, with any status, the
\* persisted file holds the in-memory student list.
C5_FileEqualsList ==
  req.path \in StudentPaths => file = stringify(students)

Rejected(message) ==
  /\ resp.status = 401
  /\ resp.error = message
  /\ handler = "none"

\* the token after "Bearer " is not one the server signed, or is past its exp
BadCredential(r) ==
  ~(/\ Len(Credential(r.authorization)) = 1
    /\ ValidToken(Credential(r.authorization)[1], r.at))

DemoCredentials ==
  [username |-> Str(<<"testuser">>), password |-> Str(<<"password123">>)]

\* C7: a login with the demo credentials is answered 200 with a non-empty
\* token, and that token sent as "Bearer <token>" to GET /auth/me before it
\* expires is answered 200 with the user testuser / student-admin.
C7_LoginThenMe ==
  /\ (req.method = "POST" /\ req.path = "/auth/login-jwt"
      /\ req.body = DemoCredentials)
       => (/\ resp.status = 200
           /\ "token" \in DOMAIN resp
           /\ resp.token # <<>>
           /\ resp.token[1] \in tokens)
  /\ \A t \in tokens :
       (/\ req.method = "GET" /\ req.path = "/auth/me"
        /\ req.authorization = Bearer(<<t>>)
        /\ req.at < t.exp)
         => (/\ resp.status = 200
             /\ resp.user.username = <<"testuser">>
             /\ resp.user.role = "student-admin")

\* a token from an earlier login was accepted by /auth/me later on
C7_Witness ==
  /\ req.method = "GET" /\ req.path = "/auth/me"
  /\ resp.status = 200
  /\ \E t \in tokens : req.authorization = Bearer(<<t>>) /\ req.at > t.iat

\* C8: a token issued by a login is accepted by the bearer guard on every
\* use before one hour after its issuance and rejected with 401 on every
\* use after that, whatever logins, logouts and student requests happened
\* in between.
C8_ValidForOneHour ==
  \A t \in tokens :
    (BearerProtected(req) /\ req.authorization = Bearer(<<t>>)) =>
      /\ req.at < t.iat + ExpiresIn => (handler # "none" /\ resp.status # 401)
      /\ req.at > t.iat + ExpiresIn => (handler = "none" /\ resp.status = 401)

\* a token was accepted in the last second of its hour, after another
\* login and a delete
C8_Witness ==
  /\ \E t \in tokens :
       /\ req.authorization = Bearer(<<t>>)
       /\ req.at = t.iat + ExpiresIn - 1
  /\ resp.status = 200
  /\ Cardinality(tokens) = 2
  /\ Len(students) = 1

LoginRequest(r) ==
  r.method = "POST" /\ r.path \in {"/auth/login-jwt", "/auth/login-cookie"}

\* the login body has no such field, or an empty one
Missing(r, key) ==
  \/ r.body = Undefined
  \/ key \notin DOMAIN r.body
  \/ r.body[key] = Str(<<>>)

\* C9: both login routes answer 400 when username or password is missing
\* and 401 when either differs from the demo credentials; such a response
\* carries no token and sets no sessionId cookie, so a token or a cookie is
\* only ever issued for the demo identity.
C9_OnlyDemoIdentity ==
  /\ LoginRequest(req) =>
       /\ (Missing(req, "username") \/ Missing(req, "password"))
            => resp.status = 400
       /\ (/\ ~Missing(req, "username") /\ ~Missing(req, "password")
           /\ req.body # DemoCredentials)
            => resp.status = 401
       /\ resp.status \in {400, 401}
            => ("token" \notin DOMAIN resp /\ "setCookie" \notin DOMAIN resp)
       /\ ("token" \in DOMAIN resp \/ "setCookie" \in DOMAIN resp)
            => req.body = DemoCredentials
  /\ \A t \in tokens :
       t.username = <<"testuser">> /\ t.role = "student-admin"

\* a cookie login with the right username and a wrong password was refused
\* and the jar stayed empty
C9_Witness ==
  /\ req.method = "POST" /\ req.path = "/auth/login-cookie"
  /\ req.body # Undefined
  /\ ~Missing(req, "username") /\ ~Missing(req, "password")
  /\ req.body.username = DemoCredentials.username
  /\ resp.status = 401
  /\ jar = Undefined

\* GET /students/:id for the path segment p
GetOf(p) == Request("GET", "/students/:id", p, Undefined, Undefined, Undefined)

\* C10: after a successful create, replace or partial update, GET on that
\* id returns exactly the record the call returned; after a successful
\* delete, GET on that id returns 404.
C10_GetReflectsMutation ==
  /\ (handler \in {"post", "put", "patch"} /\ resp.status \in {200, 201}) =>
       \A p \in IdParams :
         Number(p) = Num(resp.student.id) =>
           getById(students, GetOf(p)).res
             = [status |-> 200, student |-> resp.student]
  /\ (handler = "delete" /\ resp.status = 200) =>
       getById(students, GetOf(req.id)).res.status = 404

\* a delete succeeded while another student stayed in the store
C10_Witness ==
  /\ handler = "delete"
  /\ resp.status = 200
  /\ Len(students) = 1
  /\ students[1].id > resp.student.id

\* C11: a PUT that was answered 200, sent again at once with the same body
\* to the same id, is answered 200 with the same record and leaves the
\* whole store as the first call left it.
C11_PutIdempotent ==
  (handler = "put" /\ resp.status = 200) =>
    LET again == putStudent(students, req) IN
    /\ requireJwt(req, now).next
    /\ again.res.status = 200
    /\ again.res.student = resp.student
    /\ again.list = students
    /\ again.saved /\ stringify(again.list) = file

\* a replace gave student 1 its own email in another letter case, which the
\* second call finds already stored
C11_Witness ==
  /\ handler = "put"
  /\ resp.status = 200
  /\ resp.student.id = 1
  /\ resp.student.email = Str(EmailUpperA)
  /\ Len(students) = 2

\* the list without its i-th element
Without(list, i) == SubSeq(list, 1, i - 1) \o SubSeq(list, i + 1, Len(list))

\* C12: DELETE with a valid bearer on an id present in the store is
\* answered 200 with the record as it was stored and removes that record
\* and no other; the same call repeated at once is answered 404.
C12_DeleteThenNotFound ==
  [][/\ (/\ req'.method = "DELETE"
          /\ CarriesValidBearer(req')
          /\ ~isNaN(Number(req'.id)))
         => \A i \in DOMAIN students :
              students[i].id = Number(req'.id).v =>
                /\ resp'.status = 200
                /\ resp'.student = students[i]
                /\ students' = Without(students, i)
     /\ (/\ req.method = "DELETE"
          /\ handler = "delete"
          /\ resp.status = 200
          /\ req'.method = "DELETE"
          /\ req'.id = req.id
          /\ CarriesValidBearer(req'))
         => (resp'.status = 404 /\ students' = students)]_vars

\* student 1 was deleted and the repeated DELETE /students/1 got 404, with
\* student 2 still in the store
C12_Witness ==
  /\ req.method = "DELETE"
  /\ req.id = <<"1">>
  /\ resp.status = 404
  /\ Len(students) = 1
  /\ students[1].id = 2

StudentFields == {"name", "age", "email", "isActive"}

\* C13: a PATCH answered 200 sets the fields its payload carries and leaves
\* the target's id, the target's other fields and every other student as
\* they were.
C13_PatchChangesOnlyPayloadFields ==
  [][(req'.method = "PATCH" /\ handler' = "patch" /\ resp'.status = 200)
     => /\ Len(students') = Len(students)
        /\ \A i \in DOMAIN students :
             IF students[i].id = Number(req'.id).v
             THEN /\ students'[i].id = students[i].id
                  /\ DOMAIN students'[i] = DOMAIN students[i]
                  /\ \A f \in StudentFields :
                       students'[i][f] = IF f \in DOMAIN req'.body
                                         THEN req'.body[f]
                                         ELSE students[i][f]
                  /\ resp'.student = students'[i]
             ELSE students'[i] = students[i]]_vars

\* PATCH /students/2 with {"age": 23} on the store as shipped: only the
\* age of student 2 differs from the sample data
C13_Witness ==
  /\ req.method = "PATCH"
  /\ req.id = <<"2">>
  /\ req.body = Body(Undefined, Num(23), Undefined, Undefined)
  /\ resp.status = 200
  /\ students = [SampleStudents EXCEPT ![2].age = Num(23)]

\* the rule of create and replace for one field
ValidField(f, v) ==
  CASE f = "name" -> v.t = "string" /\ v.v # <<>>
    [] f = "age" -> v.t = "number" /\ v.v > 0
    [] f = "email" -> v.t = "string" /\ v.v # <<>>
    [] f = "isActive" -> v.t = "boolean"

\* a PATCH payload every field of which satisfies its rule
ValidPartial(b) ==
  /\ b # Undefined
  /\ \A f \in DOMAIN b \cap StudentFields : ValidField(f, b[f])

\* the path names a student of the list
Existing(list, r) ==
  ~isNaN(Number(r.id)) /\ \E i \in DOMAIN list : list[i].id = Number(r.id).v

\* a student with another id holds the email, letter case aside
TakenByOther(list, email, id) ==
  \E i \in DOMAIN list :
    /\ list[i].id # id
    /\ toLowerCase(list[i].email.v) = toLowerCase(email.v)

\* C14: with a valid bearer and an otherwise valid payload, POST answers
\* 409 exactly when a stored email equals the payload's, letter case aside;
\* PUT and PATCH on an existing id answer 409 exactly when a student with
\* another id holds it, so a student's own email in any letter case is no
\* conflict; PATCH without an email never answers 409.
C14_ConflictExactlyOnDuplicate ==
  [][(CarriesValidBearer(req') /\ req'.path \in StudentPaths) =>
       /\ (req'.method = "POST" /\ ValidPayload(req'.body))
            => (resp'.status = 409
                  <=> EmailTaken(students, req'.body.email))
       /\ (/\ req'.method = "PUT"
           /\ Existing(students, req')
           /\ ValidPayload(req'.body))
            => (resp'.status = 409
                  <=> TakenByOther(students, req'.body.email,
                                   Number(req'.id).v))
       /\ (/\ req'.method = "PATCH"
           /\ Existing(students, req')
           /\ ValidPartial(req'.body))
            => (resp'.status = 409
                  <=> /\ "email" \in DOMAIN req'.body
                      /\ TakenByOther(students, req'.body.email,
                                      Number(req'.id).v))
       /\ (/\ req'.method = "PATCH"
           /\ req'.body # Undefined
           /\ "email" \notin DOMAIN req'.body)
            => resp'.status # 409]_vars

\* student 1 had been given its own email in capitals without conflict,
\* and a PATCH of student 2 with that email was refused
C14_Witness ==
  /\ handler = "patch"
  /\ resp.status = 409
  /\ req.id = <<"2">>
  /\ req.body.email = Str(EmailUpperA)
  /\ resp.student.id = 1
  /\ resp.student.email = Str(EmailUpperA)

\* POST /students, into an empty store, of a body whose other fields are
\* valid is answered 400: the value fails the rule of create for the field
CreateRejects(f, v) ==
  postStudent(<<>>, [body |-> FullBodyWith(f, v)]).res.status = 400

\* C15: a PATCH of an existing student carrying one field is answered 400
\* exactly when a create carrying that value for that field, its other
\* fields valid, is answered 400; this includes "" for name and for email.
C15_PatchRuleIsCreateRule ==
  (/\ handler = "patch"
   /\ resp.status # 404
   /\ Cardinality(DOMAIN req.body) = 1)
    => \A f \in DOMAIN req.body :
         resp.status = 400 <=> CreateRejects(f, req.body[f])

\* C16: every stored student has a non-empty string name, a non-empty
\* string email, a number age greater than 0 and a boolean isActive.
C16_StoredStudentsWellFormed ==
  \A i \in DOMAIN students :
    \A f \in StudentFields : ValidField(f, students[i][f])

\* the payload's age is the number 0 or a negative number
AgeNotPositive(b) ==
  /\ b # Undefined
  /\ "age" \in DOMAIN b
  /\ b.age.t = "number"
  /\ b.age.v <= 0

\* C17: with a valid bearer, an age of 0 or below is answered 400 by POST,
\* and by PUT and PATCH on an existing id, and no stored age changes.
C17_NonPositiveAgeRejected ==
  [][(/\ CarriesValidBearer(req')
      /\ req'.path \in StudentPaths
      /\ AgeNotPositive(req'.body)
      /\ \/ req'.method = "POST"
         \/ req'.method \in {"PUT", "PATCH"} /\ Existing(students, req'))
     => (/\ resp'.status = 400
         /\ Len(students') = Len(students)
         /\ \A i \in DOMAIN students :
              students'[i].age = students[i].age)]_vars

\* a PATCH of student 2 with a new name and the age -1 was answered 400:
\* the name had been taken over by then, the age had not
C17_Witness ==
  /\ handler = "patch"
  /\ resp.status = 400
  /\ req.id = <<"2">>
  /\ AgeNotPositive(req.body)
  /\ "name" \in DOMAIN req.body
  /\ \E i \in DOMAIN students :
       /\ students[i].id = 2
       /\ students[i].name = req.body.name
       /\ students[i].name # SampleStudents[2].name
       /\ students[i].age = SampleStudents[2].age

ValidSession == Str(<<"dummy-session-id">>)

CookieProtected(r) == r.method = "GET" /\ r.path = "/auth/me-cookie"

CookieRejected(message) ==
  /\ resp.status = 401
  /\ resp.error = message
  /\ handler = "none"

CookieAccepted ==
  /\ handler = "meCookie"
  /\ resp.status = 200
  /\ resp.user = [username |-> "cookieUser", role |-> "cookie-tester"]

\* C18 as stated: on a cookie-protected route, no sessionId cookie gives the
\* missing-cookie 401, every cookie value other than the fixed one gives
\* the invalid-session 401, and the fixed value reaches the handler as
\* cookieUser / cookie-tester.
C18_AsStated ==
  CookieProtected(req) =>
    /\ req.sessionId = Undefined => CookieRejected(MissingCookie)
    /\ (req.sessionId # Undefined /\ req.sessionId # ValidSession)
         => CookieRejected(InvalidSession)
    /\ req.sessionId = ValidSession => CookieAccepted

\* C18 amended: a sessionId cookie that is present but empty is answered
\* like a missing one; the invalid-session 401 is for a non-empty value
\* other than the fixed one.
C18_CookieGuard ==
  CookieProtected(req) =>
    /\ (req.sessionId = Undefined \/ req.sessionId = Str(<<>>))
         => CookieRejected(MissingCookie)
    /\ (/\ req.sessionId # Undefined
        /\ req.sessionId # Str(<<>>)
        /\ req.sessionId # ValidSession)
         => CookieRejected(InvalidSession)
    /\ req.sessionId = ValidSession => CookieAccepted

\* /auth/me-cookie was asked with an empty sessionId cookie after a cookie
\* login had filled the jar
C18_Witness ==
  /\ CookieProtected(req)
  /\ req.sessionId = Str(<<>>)
  /\ CookieRejected(MissingCookie)
  /\ jar = ValidSession

\* C19: in every state, whatever logins and logouts happened and whatever
\* the time, the cookie guard accepts a request exactly when it carries the
\* fixed value; a request to /auth/me-cookie is answered accordingly.
C19_CookieDecisionFixed ==
  /\ \A c \in CookieValues :
       requireCookieLogin([sessionId |-> c]).next <=> c = ValidSession
  /\ CookieProtected(req) => (CookieAccepted <=> req.sessionId = ValidSession)

\* the fixed value was accepted more than an hour after the server started
\* by a client whose jar holds no cookie (none was set, or logout cleared
\* it), with two bearer tokens issued in the meantime
C19_Witness ==
  /\ CookieProtected(req)
  /\ req.sessionId = ValidSession
  /\ CookieAccepted
  /\ jar = Undefined
  /\ req.at > ExpiresIn
  /\ Cardinality(tokens) = 2

\* the path segment is a decimal numeral
Numeral(p) == p # <<>> /\ \A i \in DOMAIN p : p[i] \in Digits

\* C20: GET /students/:id, sent without credentials, leaves the store and
\* the file as they were and answers 400 when the id is not a number, 200
\* with the stored record when a student has that id, and otherwise 404
\* with the error "Student with id <id> not found".
C20_GetById ==
  [][(req'.method = "GET" /\ req'.path = "/students/:id")
     => /\ students' = students
        /\ file' = file
        /\ req'.authorization = Undefined /\ req'.sessionId = Undefined
        /\ IF ~Numeral(req'.id)
           THEN /\ resp'.status = 400
                /\ resp'.error = "Invalid ID. Must be a number."
           ELSE LET n == DecimalValue(req'.id) IN
                IF \E i \in DOMAIN students : students[i].id = n
                THEN \E i \in DOMAIN students :
                       /\ students[i].id = n
                       /\ resp' = [status |-> 200, student |-> students[i]]
                ELSE resp' = [status |-> 404,
                              error |-> <<"Student with id ", n,
                                          " not found">>]]_vars

\* GET /students/999 was answered 404 "Student with id 999 not found"
C20_Witness ==
  /\ req.method = "GET"
  /\ req.id = <<"9", "9", "9">>
  /\ resp.status = 404
  /\ resp.error = <<"Student with id ", 999, " not found">>

\* C25: a PATCH answered 400 or 409 leaves the whole store as it was: no
\* earlier field of the payload is applied when a later one is rejected.
C25_RejectedPatchChangesNothing ==
  [][(/\ req'.method = "PATCH"
      /\ req'.path = "/students/:id"
      /\ resp'.status \in {400, 409})
     => students' = students]_vars

\* C26: a POST /students, PUT /students/:id or DELETE /students/:id that
\* is answered 400, 404 or 409 leaves the list and the file as they were.
C26_RejectedChangesNothing ==
  [][(/\ req'.method \in {"POST", "PUT", "DELETE"}
      /\ req'.path \in StudentPaths
      /\ resp'.status \in {400, 404, 409})
     => (students' = students /\ file' = file)]_vars

\* a PUT that would have given student 2 the email of student 1 was
\* answered 409 and both students are as shipped
C26_Witness ==
  /\ handler = "put"
  /\ resp.status = 409
  /\ req.id = <<"2">>
  /\ students = SampleStudents
  /\ file = stringify(SampleStudents)

\* the last step deleted the student that held the greatest id
DeletedGreatest ==
  /\ handler = "delete"
  /\ resp.status = 200
  /\ \A i \in DOMAIN students : students[i].id < resp.student.id

\* this step is a create answered 201
Created == req'.method = "POST" /\ handler' = "post" /\ resp'.status = 201

\* C27 as stated: the create that follows the deletion of the greatest id
\* returns that id again; and no create returns an id while that id or a
\* greater one is in the store.
C27_AsStated ==
  [][/\ (DeletedGreatest /\ Created)
         => resp'.student.id = resp.student.id
     /\ Created
         => \A i \in DOMAIN students : students[i].id < resp'.student.id]_vars

\* C27 amended: the create that follows the deletion of the greatest id g
\* returns one plus the greatest id left (1 when none is left), which is g
\* exactly when g - 1 is still in the store or g = 1, and is a smaller,
\* earlier deleted id otherwise; and no create returns an id while that id
\* or a greater one is in the store.
C27_CreateReusesIds ==
  [][/\ (DeletedGreatest /\ Created)
         => /\ resp'.student.id =
                 (IF students = <<>> THEN 1 ELSE MaxOf(IdsOf(students)) + 1)
            /\ resp'.student.id <= resp.student.id
            /\ resp'.student.id = resp.student.id
                 <=> \/ resp.student.id - 1 \in IdsOf(students)
                     \/ resp.student.id = 1
     /\ Created
         => \A i \in DOMAIN students : students[i].id < resp'.student.id]_vars

\* id 2, which the store as shipped gave to Bo, was given by a create to
\* another student while student 1 was still there
C27_Witness ==
  /\ handler = "post"
  /\ resp.status = 201
  /\ resp.student.id = SampleStudents[2].id
  /\ resp.student.name # SampleStudents[2].name
  /\ IdsOf(students) = {1, 2}

\* the test PATCH applies to one field
PatchAccepts(f, v) ==
  CASE f = "name" -> v.t = "string"
    [] f = "age" -> v.t = "number" /\ v.v > 0
    [] f = "email" -> v.t = "string"
    [] f = "isActive" -> v.t = "boolean"

\* the field is in the body and fails the test of PATCH
PatchRefuses(b, f) == f \in DOMAIN b /\ ~PatchAccepts(f, b[f])

\* the body carries a string email that a student with another id holds
Duplicates(list, r) ==
  /\ "email" \in DOMAIN r.body
  /\ r.body.email.t = "string"
  /\ TakenByOther(list, r.body.email, Number(r.id).v)

\* the status of a PUT or PATCH decided in the order: id not a number,
\* unknown id, invalid body, duplicate email
StatusInOrder(list, r, invalid) ==
  IF ~Numeral(r.id) THEN 400
  ELSE IF ~Existing(list, r) THEN 404
  ELSE IF invalid THEN 400
  ELSE IF Duplicates(list, r) THEN 409
  ELSE 200

\* the status of a PATCH decided field by field: name, age, email (its
\* type, then the duplicate), isActive
PatchStatus(list, r) ==
  IF ~Numeral(r.id) THEN 400
  ELSE IF ~Existing(list, r) THEN 404
  ELSE IF PatchRefuses(r.body, "name") THEN 400
  ELSE IF PatchRefuses(r.body, "age") THEN 400
  ELSE IF PatchRefuses(r.body, "email") THEN 400
  ELSE IF Duplicates(list, r) THEN 409
  ELSE IF PatchRefuses(r.body, "isActive") THEN 400
  ELSE 200

\* a POST whose body fails validation is answered 400, duplicate or not
PostInvalidIs400 ==
  (/\ req'.method = "POST"
   /\ req'.path = "/students"
   /\ ~ValidPayload(req'.body))
    => resp'.status = 400

\* C28 as stated: with a valid bearer, PUT and PATCH decide in the order
\* id not a number (400), unknown id (404), invalid body (400), duplicate
\* email (409); a POST with an invalid body is answered 400, never 409.
C28_AsStated ==
  [][CarriesValidBearer(req') =>
       /\ (req'.method = "PUT" /\ req'.path = "/students/:id")
            => resp'.status =
                 StatusInOrder(students, req', ~ValidPayload(req'.body))
       /\ (req'.method = "PATCH" /\ req'.path = "/students/:id")
            => resp'.status =
                 StatusInOrder(students, req',
                               \E f \in StudentFields :
                                 PatchRefuses(req'.body, f))
       /\ PostInvalidIs400]_vars

\* C28 amended: PUT decides in that order, and so does POST for its last
\* two steps; PATCH decides id not a number (400), unknown id (404) and
\* then field by field, so a duplicate email (409) is reported before an
\* invalid isActive.
C28_DecisionOrder ==
  [][CarriesValidBearer(req') =>
       /\ (req'.method = "PUT" /\ req'.path = "/students/:id")
            => resp'.status =
                 StatusInOrder(students, req', ~ValidPayload(req'.body))
       /\ (req'.method = "PATCH" /\ req'.path = "/students/:id")
            => resp'.status = PatchStatus(students, req')
       /\ PostInvalidIs400]_vars

\* a PATCH carrying another student's email and an isActive that is no
\* boolean was answered 409
C28_Witness ==
  /\ handler = "patch"
  /\ resp.status = 409
  /\ PatchRefuses(req.body, "isActive")

\* the message create and replace give for a field
MessageOf(f) ==
  CASE f = "name" -> "name is required and must be a string"
    [] f = "age" -> "age is required and must be a positive number"
    [] f = "email" -> "email is required and must be a string"
    [] f = "isActive" -> "isActive is required and must be a boolean"

\* the message for the field when the body's value violates its rule
Violation(b, f) ==
  LET o == IF b = Undefined THEN <<>> ELSE b IN
  IF f \in DOMAIN o /\ ValidField(f, o[f]) THEN <<>> ELSE <<MessageOf(f)>>

\* one message per violating field, in the order name, age, email, isActive
Violations(b) ==
  Violation(b, "name") \o Violation(b, "age")
    \o Violation(b, "email") \o Violation(b, "isActive")

\* C22: a create, or a replace of an existing student, is answered 400
\* "Validation failed" exactly when some field violates its rule, and the
\* details then list one message for each violating field and no other, in
\* the order name, age, email, isActive.
C22_AllViolationsListed ==
  (handler \in {"post", "put"} /\ resp.status # 404) =>
    IF Violations(req.body) = <<>>
    THEN resp.status \in {200, 201, 409}
    ELSE /\ resp.status = 400
         /\ resp.error = "Validation failed"
         /\ resp.details = Violations(req.body)

\* a body whose name and isActive violate their rules while age and email
\* are fine was answered with exactly those two messages
C22_Witness ==
  /\ handler = "post"
  /\ resp.status = 400
  /\ resp.details = <<MessageOf("name"), MessageOf("isActive")>>
  /\ ValidField("age", req.body.age)
  /\ ValidField("email", req.body.email)

\* two creates were in flight at once in this step
Concurrent == handler' = "post, post"

\* what one request alone makes of the list and the file
Alone(list, text, r, clock) ==
  LET g == requireJwt(r, clock)
      out == postStudent(list, r)
  IN IF ~g.next THEN [list |-> list, file |-> text, res |-> g.res]
     ELSE [list |-> out.list,
           file |-> IF out.saved THEN stringify(out.list) ELSE text,
           res |-> out.res]

\* the request first is handled to its end, then the request second
OneThenOther(first_, second) ==
  LET a == Alone(students, file, first_, now)
      b == Alone(a.list, a.file, second, now)
  IN [list |-> b.list, file |-> b.file, first |-> a.res, second |-> b.res]

\* the position in the schedule s of the k-th statement of call c
PositionOf(s, c, k) ==
  CHOOSE i \in DOMAIN s :
    s[i] = c /\ Cardinality({j \in 1..i : s[j] = c}) = k

\* the k-th statement of StepOrder, by name
StepNamed(name) == CHOOSE k \in DOMAIN StepOrder : StepOrder[k] = name

\* in the schedule s no statement of the other call runs between a call's
\* checks (lookup, duplicate email, next id) and its file write
Unbroken(s) ==
  \A c \in {1, 2} :
    PositionOf(s, c, StepNamed("save")) - PositionOf(s, c, StepNamed("check"))
      = StepNamed("save") - StepNamed("check")

\* C23: each request runs to completion, file write included, before the
\* next request's handler runs: in every order the event loop may run two
\* creates, no statement of the other request comes between a handler's
\* checks and next-id computation and its push and file write, and what
\* the two requests leave and are answered is what handling one to its end
\* and then the other gives.
C23_RunsToCompletion ==
  [][Concurrent =>
       /\ \A s \in Schedules : Unbroken(s)
       /\ LET ab == OneThenOther(req'.first, req'.second)
              ba == OneThenOther(req'.second, req'.first)
          IN \/ /\ students' = ab.list /\ file' = ab.file
                /\ resp' = [first |-> ab.first, second |-> ab.second]
             \/ /\ students' = ba.list /\ file' = ba.file
                /\ resp' = [first |-> ba.second, second |-> ba.first]]_vars

\* two creates with the same email were in flight at once: one was
\* created and the other was answered 409
C23_Witness ==
  /\ handler = "post, post"
  /\ req.first.body = req.second.body
  /\ {resp.first.status, resp.second.status} = {201, 409}

\* the outcome m of two creates shows a race: both were given the same id,
\* or the file that was written last lacks one of the two new students
Raced(m) ==
  /\ m.call[1].res.status = 201
  /\ m.call[2].res.status = 201
  /\ \/ m.call[1].newStudent.id = m.call[2].newStudent.id
     \/ \E c \in {1, 2} :
          ~\E i \in DOMAIN m.file : m.file[i] = jsonOf(m.call[c].newStudent)

\* both requests of the step are creates that are valid when handled alone
BothValid ==
  /\ Concurrent
  /\ Alone(students, file, req'.first, now).res.status = 201
  /\ Alone(students, file, req'.second, now).res.status = 201
  /\ fieldsOf(req'.first).email # fieldsOf(req'.second).email

\* C24 as the specification states it: for two near-simultaneous valid
\* creates there is an interleaving in which both compute the same next id
\* before either write completes, or in which one file write clobbers the
\* other's.
C24_AsStated ==
  [][BothValid =>
       \E s \in Schedules :
         Raced(run(students, file, req'.first, req'.second, s, now))]_vars

\* C24, amended: a create handler runs from its lookup to its file write
\* without yielding, so no interleaving of two near-simultaneous creates
\* shows a race: when both are created they get different ids, and the
\* list and the file hold both new students.
C24_NoRace ==
  [][(Concurrent /\ resp'.first.status = 201 /\ resp'.second.status = 201) =>
       /\ resp'.first.student.id # resp'.second.student.id
       /\ \A created \in {resp'.first.student, resp'.second.student} :
            /\ \E i \in DOMAIN students' : students'[i] = created
            /\ \E i \in DOMAIN file' : file'[i] = jsonOf(created)]_vars

\* two valid creates with different emails were in flight at once and both
\* were created
C24_Witness ==
  /\ handler = "post, post"
  /\ resp.first.status = 201
  /\ resp.second.status = 201
  /\ resp.first.student.email # resp.second.student.email

\* the outcome the handler that ran in this step computes for its request
Attempted ==
  CASE handler' = "post" -> postStudent(students, req')
    [] handler' = "put" -> putStudent(students, req')
    [] handler' = "patch" -> patchStudent(students, req')
    [] handler' = "delete" -> deleteStudent(students, req')
    [] OTHER -> Outcome(students, FALSE, resp')

\* a request was handled in this step and its handler called saveStudents
\* while the file could not be written
WriteThrew == disk' = disk /\ disk = "full" /\ Attempted.saved

\* C21: when a handler throws, in particular when the file write of a
\* create, replace, partial update or delete fails, the request is answered
\* 500 "Internal Server Error", or with the exception's own status when it
\* carries one (400 for a body that is not JSON), and the process goes on
\* running, so that later requests are answered.
C21_ThrowIsAnswered ==
  [][/\ running'
     /\ WriteThrew =>
          /\ resp'.status = 500
          /\ resp'.error = "Internal Server Error"
          /\ resp'.message = WriteError.message
     /\ (disk' = disk /\ req'.body = Malformed) =>
          /\ resp'.status = ParseError.status.v
          /\ resp'.error = "Internal Server Error"]_vars

\* the write of a create failed, the request was answered 500, and the
\* new student is in the list but not in the file
C21_Witness ==
  /\ running
  /\ handler = "post"
  /\ resp.status = 500
  /\ Len(students) > Len(file)

====
